---- MODULE Spec2Model ----
(***************************************************************************)
(* Model of datamodels/gdax.go: PollGdaxHistorical and the functions it    *)
(* calls (getIntervalPartition, buildGdaxRequest, fetchGdaxBuckets,        *)
(* filterBuckets, generalizeGdaxBuckets).                                  *)
(*                                                                         *)
(* A time.Time is its Unix time in seconds (UTC).  A float64 is a record   *)
(* [whole, tenths] standing for whole + tenths/10 (non-negative values).   *)
(* A string that the code transforms (the interval label) is a sequence of *)
(* one-character strings.                                                  *)
(***************************************************************************)
EXTENDS Integers, Sequences, FiniteSets, TLC

VARIABLES
    now,                \* time.Now() as read by getIntervalPartition
    pc,                 \* position of the one call of PollGdaxHistorical
    interval,           \* the parameter `interval` (overwritten by ToUpper)
    intervalPartition,  \* fetchGdaxBuckets: the partition being walked
    idx,                \* fetchGdaxBuckets: index of the range loop (1-based)
    buckets,            \* fetchGdaxBuckets: accumulated rows
    response,           \* fetchGdaxBuckets: (response, err) of http.Get
    result,             \* what PollGdaxHistorical returned
    calls,              \* history: the request strings handed to http.Get
    bodies,             \* history: per call, the state of its response body
    origin,             \* history: per row of buckets, the range that gave it
    args,               \* harness: arguments of a direct call of a function
    ret                 \* harness: what that direct call returned

vars == <<now, pc, interval, intervalPartition, idx, buckets, response,
          result, calls, bodies, origin, args, ret>>

fetchVars == <<pc, interval, intervalPartition, idx, buckets, response,
               result, calls, bodies, origin>>

----------------------------------------------------------------------------
(* Bounds of the model *)

\* number of consecutive days `now` ranges over when the partition is checked
NumNowDays == 800
\* number of consecutive days `now` ranges over when the fetch loop is checked
NumFetchDays == 1
\* longest candle array one response carries
MaxRows == 2
\* longest row list handed to filterBuckets directly
MaxFilterRows == 3

----------------------------------------------------------------------------
(* Constants of the program *)

dailyBySeconds == 86400
sixhourBySeconds == 21600
hourBySeconds == 3600
fifteenminuteBySeconds == 900

StatusOK == 200
StatusInternalServerError == 500
StatusBadRequest == 400

\* The interval labels (declared in a file of the package that is not part
\* of the sources at hand).
TWOYEAR == <<"T", "W", "O", "Y", "E", "A", "R">>
YEAR == <<"Y", "E", "A", "R">>
SIXMONTH == <<"S", "I", "X", "M", "O", "N", "T", "H">>
THREEMONTH == <<"T", "H", "R", "E", "E", "M", "O", "N", "T", "H">>
MONTH == <<"M", "O", "N", "T", "H">>
WEEK == <<"W", "E", "E", "K">>
DAY == <<"D", "A", "Y">>

SupportedIntervals == {TWOYEAR, YEAR, SIXMONTH, THREEMONTH, MONTH, WEEK, DAY}

\* gdaxIntervalToGranularity[key]: a Go map read, 0 for a key that is absent
gdaxIntervalToGranularity(key) ==
    CASE key = TWOYEAR -> dailyBySeconds
      [] key = YEAR -> dailyBySeconds
      [] key = SIXMONTH -> dailyBySeconds
      [] key = THREEMONTH -> dailyBySeconds
      [] key = MONTH -> sixhourBySeconds
      [] key = WEEK -> hourBySeconds
      [] key = DAY -> fifteenminuteBySeconds
      [] OTHER -> 0

----------------------------------------------------------------------------
(* strings.ToUpper *)

LowerLetters == <<"a", "b", "d", "e", "g", "h", "i", "k", "m", "n", "o", "r",
                  "s", "t", "u", "w", "x", "y">>
UpperLetters == <<"A", "B", "D", "E", "G", "H", "I", "K", "M", "N", "O", "R",
                  "S", "T", "U", "W", "X", "Y">>

UpperChar(c) ==
    IF \E i \in 1..Len(LowerLetters) : LowerLetters[i] = c
    THEN UpperLetters[CHOOSE i \in 1..Len(LowerLetters) : LowerLetters[i] = c]
    ELSE c

\* a ToUpper that leaves the label as it came
ToUpperUnchanged(s) == s

ToUpper(s) == [i \in 1..Len(s) |-> UpperChar(s[i])]

----------------------------------------------------------------------------
(* package time: the proleptic Gregorian calendar, Date's normalisation and *)
(* AddDate                                                                  *)

SecondsPerDay == dailyBySeconds

\* day number (days since 1970-01-01) of year y, month m in 1..12, and day d;
\* d may lie outside the month, and then counts on into the next months
DaysFromCivil(y, m, d) ==
    LET yy == IF m <= 2 THEN y - 1 ELSE y
        era == yy \div 400
        yoe == yy - era * 400
        mp == (m + 9) % 12
        doy == (153 * mp + 2) \div 5 + d - 1
        doe == yoe * 365 + yoe \div 4 - yoe \div 100 + doy
    IN  era * 146097 + doe - 719468

\* the calendar date of a day number
CivilFromDays(n) ==
    LET z == n + 719468
        era == z \div 146097
        doe == z - era * 146097
        yoe == (doe - doe \div 1460 + doe \div 36524 - doe \div 146096) \div 365
        doy == doe - (365 * yoe + yoe \div 4 - yoe \div 100)
        mp == (5 * doy + 2) \div 153
        d == doy - (153 * mp + 2) \div 5 + 1
        m == IF mp < 10 THEN mp + 3 ELSE mp - 9
        y == yoe + era * 400
    IN  [y |-> IF m <= 2 THEN y + 1 ELSE y, m |-> m, d |-> d]

\* t.Date()
DateOf(t) == CivilFromDays(t \div SecondsPerDay)

IsLeapYear(y) == (y % 4 = 0 /\ y % 100 # 0) \/ y % 400 = 0

DaysInMonth(y, m) ==
    IF m = 2 THEN (IF IsLeapYear(y) THEN 29 ELSE 28)
    ELSE IF m \in {4, 6, 9, 11} THEN 30 ELSE 31

\* an AddDate that stops at the last day of the month it lands in
AddDateClamped(t, years, months, days) ==
    LET c == DateOf(t)
        mo == c.m - 1 + months
        y == c.y + years + mo \div 12
        m == (mo % 12) + 1
        d == IF c.d > DaysInMonth(y, m) THEN DaysInMonth(y, m) ELSE c.d
    IN  (DaysFromCivil(y, m, d) + days) * SecondsPerDay + (t % SecondsPerDay)

\* t.AddDate(years, months, days): the fields are added and the result is
\* normalised as time.Date does, months first, then days
AddDate(t, years, months, days) ==
    LET c == DateOf(t)
        mo == c.m - 1 + months
        y == c.y + years + mo \div 12
        m == (mo % 12) + 1
    IN  (DaysFromCivil(y, m, c.d) + days) * SecondsPerDay + (t % SecondsPerDay)

\* roundTime (declared in a file of the package that is not part of the
\* sources at hand): the time at day granularity
roundTime(t) == t - (t % SecondsPerDay)

\* two decimal digits, zero padded
Pad2(n) == IF n < 10 THEN "0" \o ToString(n) ELSE ToString(n)

\* t.Format("2006-01-02")
FormatDate(t) ==
    LET c == DateOf(t)
    IN  ToString(c.y) \o "-" \o Pad2(c.m) \o "-" \o Pad2(c.d)

----------------------------------------------------------------------------
(* getIntervalPartition *)

timePeriod(s, e) == [start |-> s, end |-> e]

\* the loop of the TWOYEAR and YEAR cases: timeIndex steps back six months
\* while it is not before `limit`
RECURSIVE SixMonthLoop(_, _)
SixMonthLoop(timeIndex, limit) ==
    IF timeIndex >= limit
    THEN <<timePeriod(timeIndex, AddDate(timeIndex, 0, 6, 0))>>
             \o SixMonthLoop(AddDate(timeIndex, 0, -6, 0), limit)
    ELSE <<>>

\* nowRounded of getIntervalPartition
NowRounded(t) == AddDate(roundTime(t), 0, 0, 1)

\* a week partition whose two-day range is the oldest one
WeekPartitionShortOldest(nowRounded) ==
    LET first == AddDate(nowRounded, 0, 0, -8)
        second == AddDate(first, 0, 0, 2)
        third == AddDate(second, 0, 0, 3)
        fourth == AddDate(third, 0, 0, 3)
    IN  <<timePeriod(third, fourth), timePeriod(second, third),
          timePeriod(first, second)>>

WeekPartition(nowRounded) ==
    LET first == AddDate(nowRounded, 0, 0, -8)
        second == AddDate(first, 0, 0, 3)
        third == AddDate(second, 0, 0, 3)
        fourth == AddDate(third, 0, 0, 2)
    IN  <<timePeriod(third, fourth), timePeriod(second, third),
          timePeriod(first, second)>>

getIntervalPartition(iv, t) ==
    LET nowRounded == NowRounded(t)
    IN  CASE iv = TWOYEAR ->
               SixMonthLoop(AddDate(nowRounded, 0, -6, 0),
                            AddDate(nowRounded, -2, 0, 0))
          [] iv = YEAR ->
               SixMonthLoop(AddDate(nowRounded, 0, -6, 0),
                            AddDate(nowRounded, -1, 0, 0))
          [] iv = SIXMONTH ->
               <<timePeriod(AddDate(nowRounded, 0, -6, 0), nowRounded)>>
          [] iv = THREEMONTH ->
               <<timePeriod(AddDate(nowRounded, 0, -3, 0), nowRounded)>>
          [] iv = MONTH ->
               <<timePeriod(AddDate(nowRounded, 0, -1, 0), nowRounded)>>
          [] iv = WEEK -> WeekPartition(nowRounded)
          [] iv = DAY ->
               <<timePeriod(AddDate(nowRounded, 0, 0, -2), nowRounded)>>
          [] OTHER -> <<>>

----------------------------------------------------------------------------
(* float64 values, rows and price points *)

Float(w, t) == [whole |-> w, tenths |-> t]

\* int64(f), for f >= 0: the fraction is cut off
Int64(f) == f.whole

\* strconv.FormatFloat(f, 'f', -1, 64): the shortest decimal that gives f back
FormatFloat(f) ==
    IF f.tenths = 0
    THEN ToString(f.whole)
    ELSE ToString(f.whole) \o "." \o ToString(f.tenths)

\* time.Unix(int64(bucket[0]), 0)
BucketTime(bucket) == Int64(bucket[1])

PricePoint(ts, price) == [Timestamp |-> ts, Price |-> price]

MyError(msg, code) == [Err |-> msg, ErrorCode |-> code]

\* a nil *errors.MyError
NilError == [Err |-> "", ErrorCode |-> -1]

\* the characters of s as one string
RECURSIVE Join(_)
Join(s) == IF s = <<>> THEN "" ELSE Head(s) \o Join(Tail(s))


----------------------------------------------------------------------------
(* filterBuckets *)

\* a test that leaves the boundaries out
InIntervalExclusive(timestamp, start, end) ==
    timestamp < end /\ timestamp > start

\* the test of the loop body, on a row's time
InInterval(timestamp, start, end) ==
    \/ (timestamp < end /\ timestamp > start)
    \/ timestamp = start
    \/ timestamp = end

\* bucket[0] of a row without entries: index out of range
FilterPanics(rows) == \E i \in 1..Len(rows) : Len(rows[i]) < 1

filterBuckets(start, end, rows) ==
    SelectSeq(rows, LAMBDA bucket : InInterval(BucketTime(bucket), start, end))

----------------------------------------------------------------------------
(* generalizeGdaxBuckets *)

\* val[1] of a row with fewer than two entries: index out of range
GeneralizePanics(rows) == \E i \in 1..Len(rows) : Len(rows[i]) < 2

\* a conversion that writes the points back to front
generalizeGdaxBucketsReversed(rows) ==
    [index \in 1..Len(rows) |->
        PricePoint(Int64(rows[Len(rows) + 1 - index][1]),
                   FormatFloat(rows[Len(rows) + 1 - index][2]))]

generalizeGdaxBuckets(rows) ==
    [index \in 1..Len(rows) |->
        PricePoint(Int64(rows[index][1]), FormatFloat(rows[index][2]))]

----------------------------------------------------------------------------
(* buildGdaxRequest *)

gdaxHistoricalEndpoint == "https://api.gdax.com/products/BTC-USD/candles"

\* url.Values.Encode writes the parameters sorted by key.  http.NewRequest
\* does not fail on the constant endpoint, so the error result is always nil.
buildGdaxRequest(granularity, start, end) ==
    gdaxHistoricalEndpoint
        \o "?end=" \o FormatDate(end)
        \o "&granularity=" \o ToString(granularity)
        \o "&start=" \o FormatDate(start)

----------------------------------------------------------------------------
(* What the callers and the exchange can supply *)

LowerChar(c) ==
    IF \E i \in 1..Len(UpperLetters) : UpperLetters[i] = c
    THEN LowerLetters[CHOOSE i \in 1..Len(UpperLetters) : UpperLetters[i] = c]
    ELSE c

ToLower(s) == [i \in 1..Len(s) |-> LowerChar(s[i])]

\* upper and lower case letters in turn
MixedCase(s) ==
    [i \in 1..Len(s) |-> IF i % 2 = 0 THEN LowerChar(s[i]) ELSE UpperChar(s[i])]

InvalidLabels ==
    { <<"b", "o", "g", "u", "s">>, <<"B", "O", "G", "U", "S">>, <<>>,
      <<"W", "E", "E", "K", "S">>, <<"d", "a">>, <<"H", "O", "U", "R">> }

LabelInputs ==
    SupportedIntervals
        \cup {ToLower(s) : s \in SupportedIntervals}
        \cup {MixedCase(s) : s \in SupportedIntervals}
        \cup InvalidLabels

\* the first day `now` is drawn from: 2019-01-01 for the partition,
\* 2020-02-28 for the fetch loop
PartitionFirstDay == DaysFromCivil(2019, 1, 1)
FetchFirstDay == DaysFromCivil(2020, 2, 28)

TimesOfDay == {0, 45296}

NowInputs(firstDay, numDays, times) ==
    {(firstDay + k) * SecondsPerDay + tod : k \in 0..(numDays - 1), tod \in times}

\* the candle rows the exchange may answer a request for [start, end] with:
\* a second before the start, at the start, half a second past the end, a
\* second past the end, and a row without entries
CandidateRows(tp) ==
    { <<Float(tp.start, 0), Float(0, 1)>>,
      <<Float(tp.end, 5), Float(6500, 5)>>,
      <<Float(tp.end + 1, 0), Float(6501, 0)>>,
      <<>> }

SeqsUpTo(S, n) == UNION {[1..k -> S] : k \in 0..n}

ExchangeMessages == {"Rate limit exceeded", "Invalid start"}
DecodeError == "json: cannot unmarshal"

Response(e, n, code, payload) ==
    [err |-> e, nil |-> n, StatusCode |-> code, payload |-> payload]

\* the (response, err) pairs http.Get can return for a request for tp
GetOutcomes(tp) ==
    \* the endpoint was not reached: no response
    { Response(TRUE, TRUE, 0, [kind |-> "none"]) }
    \* a redirect policy failure: a response whose body is closed already
    \cup { Response(TRUE, FALSE, 302, [kind |-> "none"]) }
    \cup { Response(FALSE, FALSE, StatusOK, [kind |-> "rows", rows |-> r]) :
              r \in SeqsUpTo(CandidateRows(tp), MaxRows) }
    \cup { Response(FALSE, FALSE, StatusOK, [kind |-> "garbage"]) }
    \cup { Response(FALSE, FALSE, code, [kind |-> "error", Message |-> m]) :
              code \in {StatusBadRequest, 429}, m \in ExchangeMessages }
    \cup { Response(FALSE, FALSE, StatusBadRequest, [kind |-> "garbage"]) }

NoResponse == Response(FALSE, TRUE, 0, [kind |-> "none"])

\* the history of one call of http.Get: whether it has returned, whether it
\* gave a response (and so a body), whether that body is open, and how often
\* the code decoded and closed it
Body(returned, exists, open) ==
    [returned |-> returned, exists |-> exists, open |-> open,
     reads |-> 0, closes |-> 0]

\* json.NewDecoder(response.Body).Decode
ReadBody(b) == [b EXCEPT !.reads = @ + 1]

\* response.Body.Close()
CloseBody(b) == [b EXCEPT !.open = FALSE, !.closes = @ + 1]

----------------------------------------------------------------------------
(* PollGdaxHistorical and fetchGdaxBuckets, one call *)

\* (series, err) as returned; a nil slice is the empty sequence
Returned(series, err) == [series |-> series, err |-> err]

NoResult == Returned(<<>>, NilError)

InvalidIntervalError(iv) ==
    MyError("Please provide a valid interval; " \o Join(iv) \o " is invalid",
            StatusBadRequest)

\* lines 45-49 and 78-82: the label is upper-cased and looked up; an unknown
\* one is refused, a known one has its partition computed and the loop starts
PollGdaxHistorical(label) ==
    /\ pc = "idle"
    /\ interval' = ToUpper(label)
    /\ IF gdaxIntervalToGranularity(interval') = 0
       THEN /\ result' = Returned(<<>>, InvalidIntervalError(interval'))
            /\ pc' = "done"
            /\ UNCHANGED <<intervalPartition, idx, buckets>>
       ELSE /\ intervalPartition' = getIntervalPartition(interval', now)
            /\ idx' = 1
            /\ buckets' = <<>>
            /\ pc' = "loop"
            /\ UNCHANGED result
    /\ UNCHANGED <<now, response, calls, bodies, origin, args, ret>>

\* a loop that asks for the ranges oldest first
IssueRequestOldestFirst ==
    /\ pc = "loop"
    /\ idx <= Len(intervalPartition)
    /\ LET tp == intervalPartition[Len(intervalPartition) + 1 - idx]
       IN  calls' = Append(calls,
                           buildGdaxRequest(gdaxIntervalToGranularity(interval),
                                            tp.start, tp.end))
    /\ bodies' = Append(bodies, Body(FALSE, FALSE, FALSE))
    /\ pc' = "get"
    /\ UNCHANGED <<now, interval, intervalPartition, idx, buckets, response,
                   result, origin, args, ret>>

\* lines 83-90: the next range's request is built and handed to http.Get
IssueRequest ==
    /\ pc = "loop"
    /\ idx <= Len(intervalPartition)
    /\ calls' = Append(calls,
                       buildGdaxRequest(gdaxIntervalToGranularity(interval),
                                        intervalPartition[idx].start,
                                        intervalPartition[idx].end))
    /\ bodies' = Append(bodies, Body(FALSE, FALSE, FALSE))
    /\ pc' = "get"
    /\ UNCHANGED <<now, interval, intervalPartition, idx, buckets, response,
                   result, origin, args, ret>>

\* line 90: http.Get returns
HttpGetReturns ==
    /\ pc = "get"
    /\ \E r \in GetOutcomes(intervalPartition[idx]) :
          /\ response' = r
          /\ bodies' = [bodies EXCEPT ![idx] =
                           Body(TRUE, ~r.nil, ~r.nil /\ ~r.err)]
    /\ pc' = "got"
    /\ UNCHANGED <<now, interval, intervalPartition, idx, buckets, result,
                   calls, origin, args, ret>>

\* lines 93-97: err != nil.  response.Body.Close() comes before the return:
\* with no response it is a nil dereference and the call panics
HandleTransportError ==
    /\ pc = "got"
    /\ response.err
    /\ bodies' = [bodies EXCEPT ![idx] = CloseBody(@)]
    /\ IF response.nil
       THEN /\ pc' = "panic"
            /\ UNCHANGED result
       ELSE /\ pc' = "done"
            /\ result' = Returned(<<>>, MyError("Failed to reach GDAX API",
                                               StatusInternalServerError))
    /\ UNCHANGED <<now, interval, intervalPartition, idx, buckets, response,
                   calls, origin, args, ret>>

\* lines 98-111: status 200.  The body is decoded and closed; a decode
\* failure returns, otherwise the rows are filtered and appended
HandleOK ==
    /\ pc = "got"
    /\ ~response.err
    /\ response.StatusCode = StatusOK
    /\ bodies' = [bodies EXCEPT ![idx] = CloseBody(ReadBody(@))]
    /\ IF response.payload.kind # "rows"
       THEN /\ result' = Returned(<<>>, MyError(DecodeError,
                                               StatusInternalServerError))
            /\ pc' = "done"
            /\ UNCHANGED <<idx, buckets, origin>>
       ELSE IF FilterPanics(response.payload.rows)
       THEN /\ pc' = "panic"
            /\ UNCHANGED <<idx, buckets, origin, result>>
       ELSE LET tempBuckets == filterBuckets(intervalPartition[idx].start,
                                             intervalPartition[idx].end,
                                             response.payload.rows)
            IN  /\ buckets' = buckets \o tempBuckets
                /\ origin' = origin \o [i \in 1..Len(tempBuckets) |-> idx]
                /\ idx' = idx + 1
                /\ pc' = "loop"
                /\ UNCHANGED result
    \* `response` is a variable of the loop body: it is gone at the loop head
    /\ response' = IF pc' = "loop" THEN NoResponse ELSE response
    /\ UNCHANGED <<now, interval, intervalPartition, calls, args, ret>>

\* a handler that logs the exchange's error and goes on to the next range
HandleNotOKGoesOn ==
    /\ pc = "got"
    /\ ~response.err
    /\ response.StatusCode # StatusOK
    /\ bodies' = [bodies EXCEPT ![idx] = CloseBody(ReadBody(@))]
    /\ idx' = idx + 1
    /\ pc' = "loop"
    /\ UNCHANGED <<now, interval, intervalPartition, buckets, response,
                   result, calls, origin, args, ret>>

\* lines 112-123: any other status.  The error payload is decoded, the body
\* closed, and the exchange's message or the decode error returned
HandleNotOK ==
    /\ pc = "got"
    /\ ~response.err
    /\ response.StatusCode # StatusOK
    /\ bodies' = [bodies EXCEPT ![idx] = CloseBody(ReadBody(@))]
    /\ result' = IF response.payload.kind = "error"
                 THEN Returned(<<>>, MyError(response.payload.Message, 0))
                 ELSE Returned(<<>>, MyError(DecodeError, 0))
    /\ pc' = "done"
    /\ UNCHANGED <<now, interval, intervalPartition, idx, buckets, response,
                   calls, origin, args, ret>>

\* lines 126 and 53-59: the loop is over; the rows are returned and
\* generalized
ReturnBuckets ==
    /\ pc = "loop"
    /\ idx > Len(intervalPartition)
    /\ IF GeneralizePanics(buckets)
       THEN /\ pc' = "panic"
            /\ UNCHANGED result
       ELSE /\ pc' = "done"
            /\ result' = Returned(generalizeGdaxBuckets(buckets), NilError)
    /\ UNCHANGED <<now, interval, intervalPartition, idx, buckets, response,
                   calls, bodies, origin, args, ret>>

FetchInit ==
    /\ pc = "idle"
    /\ interval = <<>>
    /\ intervalPartition = <<>>
    /\ idx = 0
    /\ buckets = <<>>
    /\ response = NoResponse
    /\ result = NoResult
    /\ calls = <<>>
    /\ bodies = <<>>
    /\ origin = <<>>

Init ==
    /\ now \in NowInputs(FetchFirstDay, NumFetchDays, {45296})
    /\ FetchInit
    /\ args = <<>>
    /\ ret = <<>>

Next ==
    \/ \E label \in LabelInputs : PollGdaxHistorical(label)
    \/ IssueRequest
    \/ HttpGetReturns
    \/ HandleTransportError
    \/ HandleOK
    \/ HandleNotOK
    \/ ReturnBuckets

Spec == Init /\ [][Next]_vars

----------------------------------------------------------------------------
(* getIntervalPartition called on its own, for every `now` of a range of    *)
(* days and every supported interval                                        *)

CallGetIntervalPartition(iv) ==
    /\ pc = "call"
    /\ args' = iv
    /\ ret' = getIntervalPartition(iv, now)
    /\ pc' = "returned"
    /\ UNCHANGED <<now, interval, intervalPartition, idx, buckets, response,
                   result, calls, bodies, origin>>

HarnessInit ==
    /\ pc = "call"
    /\ interval = <<>>
    /\ intervalPartition = <<>>
    /\ idx = 0
    /\ buckets = <<>>
    /\ response = NoResponse
    /\ result = NoResult
    /\ calls = <<>>
    /\ bodies = <<>>
    /\ origin = <<>>
    /\ ret = <<>>

InitPartition ==
    /\ now \in NowInputs(PartitionFirstDay, NumNowDays, TimesOfDay)
    /\ HarnessInit
    /\ args = <<>>

NextPartition == \E iv \in SupportedIntervals : CallGetIntervalPartition(iv)

SpecPartition == InitPartition /\ [][NextPartition]_vars

----------------------------------------------------------------------------
(* filterBuckets called on its own, for bounded row lists and boundaries    *)

FilterBase == FetchFirstDay * SecondsPerDay

FilterTimes == FilterBase..(FilterBase + 2)

\* rows from a second before the earliest start to a second past the latest
\* end, on the second and half a second past it, each with a price of its own
FilterRows ==
    { <<Float(w, t), Float(w - FilterBase + 1, t)>> :
          w \in (FilterBase - 1)..(FilterBase + 3), t \in {0, 5} }

CallFilterBuckets ==
    /\ pc = "call"
    /\ ret' = filterBuckets(args.start, args.end, args.buckets)
    /\ pc' = "returned"
    /\ UNCHANGED <<now, interval, intervalPartition, idx, buckets, response,
                   result, calls, bodies, origin, args>>

InitFilter ==
    /\ now = FilterBase
    /\ HarnessInit
    /\ args \in [start : FilterTimes, end : FilterTimes,
                 buckets : SeqsUpTo(FilterRows, MaxFilterRows)]

NextFilter == CallFilterBuckets

SpecFilter == InitFilter /\ [][NextFilter]_vars

----------------------------------------------------------------------------
(* Properties of getIntervalPartition (under SpecPartition)                 *)

DaysLong(tp) == (tp.end - tp.start) \div SecondsPerDay

\* where the lookback window of an interval starts, nowRounded being its end
WindowStart(iv, nowRounded) ==
    CASE iv = TWOYEAR -> AddDate(nowRounded, -2, 0, 0)
      [] iv = YEAR -> AddDate(nowRounded, -1, 0, 0)
      [] iv = SIXMONTH -> AddDate(nowRounded, 0, -6, 0)
      [] iv = THREEMONTH -> AddDate(nowRounded, 0, -3, 0)
      [] iv = MONTH -> AddDate(nowRounded, 0, -1, 0)
      [] iv = WEEK -> nowRounded - 8 * SecondsPerDay
      [] iv = DAY -> nowRounded - 2 * SecondsPerDay

\* C1: for every supported interval and every `now`, the partition is not
\* empty, runs backwards in time (no range ends before the next one ends),
\* has no gaps (each range starts where the next one ends), ends at
\* rounded-now and starts where the interval's lookback window starts.
C1_PartitionCoversWindow ==
    pc = "returned" =>
        /\ Len(ret) >= 1
        /\ \A i \in 1..(Len(ret) - 1) :
              /\ ret[i].end >= ret[i + 1].end
              /\ ret[i].start = ret[i + 1].end
        /\ ret[1].end = NowRounded(now)
        /\ ret[Len(ret)].start = WindowStart(args, NowRounded(now))

\* C7, as claimed: the one-week partition has three ranges that are, in the
\* order returned (most recent first), 3, 3 and 2 days long and span the 8
\* days that end at rounded-now.
C7_WeekSizesAsClaimed ==
    (pc = "returned" /\ args = WEEK) =>
        /\ Len(ret) = 3
        /\ <<DaysLong(ret[1]), DaysLong(ret[2]), DaysLong(ret[3])>> = <<3, 3, 2>>
        /\ ret[1].end = NowRounded(now)
        /\ ret[3].start = NowRounded(now) - 8 * SecondsPerDay

\* C7, amended: the one-week partition has three ranges that are, in the
\* order returned (most recent first), 2, 3 and 3 days long; each starts
\* where the next one ends and they span the 8 days that end at rounded-now.
C7_WeekSizes ==
    (pc = "returned" /\ args = WEEK) =>
        /\ Len(ret) = 3
        /\ <<DaysLong(ret[1]), DaysLong(ret[2]), DaysLong(ret[3])>> = <<2, 3, 3>>
        /\ ret[1].start = ret[2].end
        /\ ret[2].start = ret[3].end
        /\ ret[1].end = NowRounded(now)
        /\ ret[3].start = NowRounded(now) - 8 * SecondsPerDay

C7_Witness ==
    /\ pc = "returned"
    /\ args = WEEK
    /\ Len(ret) = 3
    /\ ret[1].end > ret[3].end

\* the month six months before month m of year y
SixMonthsBefore(y, m) ==
    IF m > 6 THEN [y |-> y, m |-> m - 6] ELSE [y |-> y - 1, m |-> m + 6]

\* the month after month m of year y
MonthAfter(y, m) ==
    IF m = 12 THEN [y |-> y + 1, m |-> 1] ELSE [y |-> y, m |-> m + 1]

\* C8, as claimed: the six-month partition is one range that ends at
\* rounded-now and starts on the same day of the month six months earlier,
\* whatever the day of the month of rounded-now.
C8_SixMonthSameDayAsClaimed ==
    (pc = "returned" /\ args = SIXMONTH) =>
        LET e == DateOf(NowRounded(now))
            b == SixMonthsBefore(e.y, e.m)
        IN  /\ Len(ret) = 1
            /\ ret[1].end = NowRounded(now)
            /\ DateOf(ret[1].start) = [y |-> b.y, m |-> b.m, d |-> e.d]

\* C8, amended: the six-month partition is one range that ends at
\* rounded-now; it starts at midnight of the same day of the month six
\* months earlier when that month has such a day, and otherwise as many days
\* into the month after it as the day of the month exceeds its length.
C8_SixMonthRange ==
    (pc = "returned" /\ args = SIXMONTH) =>
        LET e == DateOf(NowRounded(now))
            b == SixMonthsBefore(e.y, e.m)
            len == DaysInMonth(b.y, b.m)
            a == MonthAfter(b.y, b.m)
        IN  /\ Len(ret) = 1
            /\ ret[1].end = NowRounded(now)
            /\ ret[1].start % SecondsPerDay = 0
            /\ DateOf(ret[1].start) =
                   IF e.d <= len
                   THEN [y |-> b.y, m |-> b.m, d |-> e.d]
                   ELSE [y |-> a.y, m |-> a.m, d |-> e.d - len]

\* rounded-now is on a day of the month that the month six months earlier
\* does not have
C8_Witness ==
    /\ pc = "returned"
    /\ args = SIXMONTH
    /\ Len(ret) = 1
    /\ LET e == DateOf(NowRounded(now))
           b == SixMonthsBefore(e.y, e.m)
       IN  e.d > DaysInMonth(b.y, b.m)

----------------------------------------------------------------------------
(* Properties of filterBuckets (under SpecFilter)                           *)

\* the rows whose time lies in [start, end], in their order
RECURSIVE RowsWithin(_, _, _)
RowsWithin(rows, start, end) ==
    IF Len(rows) = 0
    THEN <<>>
    ELSE LET t == rows[1][1].whole
         IN  (IF start <= t /\ t <= end THEN <<rows[1]>> ELSE <<>>)
                 \o RowsWithin(Tail(rows), start, end)

\* C5: for start <= end, filterBuckets returns exactly the rows whose time t
\* has start <= t <= end, in their input order: rows at a boundary are kept,
\* rows a second outside are dropped.
C5_FilterBoundaryInclusive ==
    (pc = "returned" /\ args.start <= args.end) =>
        ret = RowsWithin(args.buckets, args.start, args.end)

\* a row a second past the end is dropped, the rows at the end and at the
\* start are kept, in that order
C5_Witness ==
    /\ pc = "returned"
    /\ args.start < args.end
    /\ Len(args.buckets) = 3
    /\ args.buckets[1][1] = Float(args.end + 1, 0)
    /\ args.buckets[2][1] = Float(args.end, 0)
    /\ args.buckets[3][1] = Float(args.start, 0)
    /\ ret = <<args.buckets[2], args.buckets[3]>>

----------------------------------------------------------------------------
(* Properties of one call of PollGdaxHistorical (under Spec)                *)

\* label is s (an upper-case label) in some letter case
CaseVariant(label, s) ==
    /\ Len(label) = Len(s)
    /\ \A i \in 1..Len(s) : label[i] = s[i] \/ label[i] = LowerChar(s[i])

IsSupportedLabel(label) == \E s \in SupportedIntervals : CaseVariant(label, s)

\* C3: a label that is no supported label in any letter case is refused with
\* an invalid-interval error of code 400 and no series, with no partition
\* computed, no request built and no network call made; a supported label, in
\* any letter case, passes and reaches the fetcher.
C3_InvalidIntervalRejected ==
    [][\A label \in LabelInputs :
          PollGdaxHistorical(label) =>
              IF IsSupportedLabel(label)
              THEN /\ pc' = "loop"
                   /\ interval' \in SupportedIntervals
                   /\ CaseVariant(label, interval')
                   /\ intervalPartition' # <<>>
                   /\ result' = NoResult
              ELSE /\ pc' = "done"
                   /\ result'.series = <<>>
                   /\ result'.err # NilError
                   /\ result'.err.ErrorCode = StatusBadRequest
                   /\ intervalPartition' = <<>>
                   /\ calls' = <<>>
                   /\ bodies' = <<>>]_vars

C3_Witness ==
    /\ pc = "done"
    /\ interval = <<"B", "O", "G", "U", "S">>
    /\ result.err.ErrorCode = StatusBadRequest
    /\ result.series = <<>>
    /\ calls = <<>>

\* the answer to the current request is a non-success status or a body that
\* does not decode
RequestFailed ==
    /\ ~response.err
    /\ ~response.nil
    /\ (response.StatusCode # StatusOK \/ response.payload.kind = "garbage")

\* C4: once the request for range k has got a non-success status or a body
\* that does not decode, the call is over: k requests were made and no other
\* is, the body of the k-th was read once, and what is returned is an error
\* (the exchange's message when its error payload decodes) and no rows.
C4_ErrorAbortsWholeOperation ==
    (RequestFailed /\ pc # "got") =>
        /\ pc = "done"
        /\ ~ENABLED Next
        /\ Len(calls) = idx
        /\ bodies[idx].reads = 1
        /\ result.series = <<>>
        /\ result.err # NilError
        /\ (response.payload.kind = "error"
               => result.err.Err = response.payload.Message)

\* the second request fails with an exchange error after the first gave rows
C4_Witness ==
    /\ pc = "done"
    /\ idx = 2
    /\ buckets # <<>>
    /\ RequestFailed
    /\ response.payload.kind = "error"
    /\ result.err.Err = response.payload.Message
    /\ result.series = <<>>

\* C2: when http.Get reports a failure, the call ends normally: it returns
\* the transport error and no series, and the body of the failed request is
\* neither read nor otherwise touched.
C2_TransportFailureReturnsError ==
    (response.err /\ pc # "got") =>
        /\ pc = "done"
        /\ result = Returned(<<>>, MyError("Failed to reach GDAX API",
                                           StatusInternalServerError))
        /\ bodies[idx].reads = 0
        /\ bodies[idx].closes = 0

\* C10: every response body is closed exactly once, before the next request
\* is made and before the call returns, and nothing is closed on a response
\* that does not exist.
C10_BodyClosedExactlyOnce ==
    \A i \in 1..Len(bodies) :
        /\ bodies[i].closes <= 1
        /\ ~bodies[i].exists => bodies[i].closes = 0
        /\ (bodies[i].exists /\ (i < Len(bodies) \/ pc \in {"loop", "done"}))
               => (bodies[i].closes = 1 /\ ~bodies[i].open)

\* the request string for a range, as the exchange expects it
RequestFor(tp, granularity) ==
    "https://api.gdax.com/products/BTC-USD/candles?end=" \o FormatDate(tp.end)
        \o "&granularity=" \o ToString(granularity)
        \o "&start=" \o FormatDate(tp.start)

\* C9: the i-th call made is the one for the i-th range of the partition, at
\* the interval's granularity; a range gets at most one call and, on a
\* successful run, exactly one; at most one call is outstanding, and a call
\* is made only when every earlier response was decoded, closed and its
\* rows appended.
C9_OneCallPerRangeInOrder ==
    /\ Len(calls) <= Len(intervalPartition)
    /\ Len(bodies) = Len(calls)
    /\ \A i \in 1..Len(calls) :
          calls[i] = RequestFor(intervalPartition[i],
                                gdaxIntervalToGranularity(interval))
    /\ Cardinality({i \in 1..Len(bodies) : ~bodies[i].returned}) <= 1
    /\ \A i \in 1..(Len(calls) - 1) :
          /\ bodies[i].returned
          /\ bodies[i].reads = 1
          /\ bodies[i].closes = 1
          /\ ~bodies[i].open
    /\ \A j \in 1..Len(origin) : origin[j] <= Len(calls)
    /\ (pc \in {"get", "got"} => \A j \in 1..Len(origin) : origin[j] < Len(calls))
    /\ (pc = "done" /\ result.err = NilError)
           => Len(calls) = Len(intervalPartition)

\* a successful two-year run: four calls, the fourth for the oldest range
C9_Witness ==
    /\ pc = "done"
    /\ result.err = NilError
    /\ interval = TWOYEAR
    /\ Len(calls) = 4
    /\ calls[1] # calls[4]

\* the point a row becomes
PointOf(row) == PricePoint(row[1].whole, FormatFloat(row[2]))

\* C6: each successful response appends to the rows gathered so far exactly
\* its rows that lie within the range asked for, in their order; the series
\* returned has one point per gathered row, in the same order, and each
\* point's time lies within the range whose request gave its row.
C6_SeriesInFetchOrder ==
    [][/\ (pc = "got" /\ pc' = "loop") =>
              /\ buckets' = buckets
                     \o RowsWithin(response.payload.rows,
                                   intervalPartition[idx].start,
                                   intervalPartition[idx].end)
              /\ Len(origin') = Len(buckets')
              /\ \A j \in 1..Len(origin) : origin'[j] = origin[j]
              /\ \A j \in (Len(origin) + 1)..Len(origin') : origin'[j] = idx
       /\ (pc \notin {"got", "idle"}) => buckets' = buckets
       /\ (pc' = "done" /\ result'.err = NilError) =>
              /\ pc = "loop"
              /\ Len(result'.series) = Len(buckets)
              /\ \A j \in 1..Len(buckets) :
                    /\ result'.series[j] = PointOf(buckets[j])
                    /\ result'.series[j].Timestamp
                           >= intervalPartition[origin[j]].start
                    /\ result'.series[j].Timestamp
                           <= intervalPartition[origin[j]].end
      ]_vars

\* a series of two points from the first range and one from the second
C6_Witness ==
    /\ pc = "done"
    /\ result.err = NilError
    /\ origin = <<1, 1, 2>>
    /\ Len(result.series) = 3
    /\ result.series[1] # result.series[2]

====
